---- MODULE Spec2Model ----
(***************************************************************************)
(* Model of the video generation server: the process-wide pLimit limiter,  *)
(* the POST /generate-video handler (one run of the handler is a "job"),   *)
(* the ffmpeg composition calls it makes, and downloadFileToPath.          *)
(*                                                                         *)
(* JavaScript runs a handler to completion between two awaits, so one      *)
(* action is the code that runs from one suspension point to the next.     *)
(* Array indices are 1-based here; an index the code reports (findIndex)   *)
(* is converted back to the code's 0-based value.                          *)
(***************************************************************************)
EXTENDS Integers, Sequences, FiniteSets, TLC

\* ------------------------------------------------------------------ bounds
NumJobs == 2        \* handler runs that may overlap
MaxSegs == 2        \* segments per request
MaxCpus == 3        \* os.cpus().length is 1 or MaxCpus

Jobs == 1..NumJobs
TaskIds == Jobs \X (1..MaxSegs)

\* ------------------------------------------------------- JavaScript values
\* A duration as it arrives in the JSON body: undefined (absent), null,
\* a number, a string, or Infinity (JSON.parse("1e999")).
Undefined == [k |-> "undefined", n |-> 0, s |-> ""]
Null == [k |-> "null", n |-> 0, s |-> ""]
NaN == [k |-> "NaN", n |-> 0, s |-> ""]
Infinity == [k |-> "Infinity", n |-> 0, s |-> ""]
Num(n) == [k |-> "number", n |-> n, s |-> ""]
Str(s) == [k |-> "string", n |-> 0, s |-> s]

\* Number(s) for the strings the model uses: StringToNumber of ECMAScript.
StringToNumber(s) ==
    CASE s = "" -> Num(0)
      [] s = "3" -> Num(3)
      [] s = "Infinity" -> Infinity
      [] OTHER -> NaN

\* Number(v)
ToNumber(v) ==
    CASE v.k = "undefined" -> NaN
      [] v.k = "null" -> Num(0)
      [] v.k = "string" -> StringToNumber(v.s)
      [] OTHER -> v

\* Number.isFinite(x), x already a number value
NumberIsFinite(x) == x.k = "number"

\* ToBoolean(v): the test of `if (v)`
Truthy(v) ==
    CASE v.k = "undefined" -> FALSE
      [] v.k = "null" -> FALSE
      [] v.k = "NaN" -> FALSE
      [] v.k = "number" -> v.n # 0
      [] v.k = "string" -> v.s # ""
      [] OTHER -> TRUE

\* ------------------------------------------------------------ the requests
\* A segment after normalisation (server.js 142-150): its duration and
\* whether it carries subtitleText or word_duration.
Seg(d, sub) == [duration |-> d, sub |-> sub]

PlainSegs == {Seg(Num(3), FALSE), Seg(Num(4), FALSE)}
RichSegs ==
    PlainSegs \cup
    { Seg(Undefined, FALSE), Seg(Str("abc"), FALSE), Seg(Num(0), FALSE),
      Seg(Num(3), TRUE) }

SeqsUpTo(S, n) == UNION { [1..m -> S] : m \in 1..n }

\* jobId.trim() for the strings the model uses.
Trim(s) == IF s = "  " THEN "" ELSE s

\* The jobId check passes: not (!jobId || typeof jobId !== 'string' ||
\* jobId.trim() === '').
JobIdOk(id) == ~(~Truthy(id) \/ id.k # "string" \/ Trim(id.s) = "")

\* The jobIds clients send: one valid id, which every valid request uses
\* (clients may repeat a jobId), and the invalid ones: missing, not a
\* string, empty, blank.
JobId == Str("job-123")
BadJobIds == {Undefined, Num(7), Str(""), Str("  ")}

\* A request body: its jobId, subtitlePreset given or not, and the segments
\* array; subtitleStyle is absent and segments is an array unless said
\* otherwise.
Req(id, preset, segs) ==
    [jobId |-> id, jobIdOk |-> JobIdOk(id), preset |-> preset, style |-> FALSE,
     isArray |-> TRUE, segments |-> segs]
\* The body r with a subtitleStyle object.
WithStyle(r) == [r EXCEPT !.style = TRUE]
\* The body r with a segments value that is not an array (absent, a string,
\* an object).
NotArray(r) == [r EXCEPT !.isArray = FALSE, !.segments = <<>>]
NoRequest == Req(Undefined, FALSE, <<>>)
SpecialRequests ==
    { Req(id, FALSE, <<Seg(Num(3), FALSE)>>) : id \in BadJobIds } \cup
    { Req(JobId, FALSE, <<>>),                      \* segments: []
      NotArray(Req(JobId, FALSE, <<>>)),            \* segments not an array
      Req(JobId, TRUE, <<Seg(Num(3), FALSE)>>),     \* subtitlePreset given
      Req(JobId, TRUE, <<>>),                       \* subtitlePreset, segments: []
      Req(Str(""), TRUE, <<>>),                     \* nothing valid
      WithStyle(Req(JobId, FALSE, <<Seg(Num(3), FALSE)>>)),
      WithStyle(Req(JobId, FALSE, <<Seg(Num(3), TRUE)>>)) }
PlainRequests == { Req(JobId, FALSE, [i \in 1..n |-> Seg(Num(3), FALSE)]) : n \in 1..MaxSegs }
RichRequests ==
    { Req(JobId, FALSE, s) : s \in SeqsUpTo(RichSegs, MaxSegs) } \cup SpecialRequests


\* ------------------------------------------------------------------- state
VARIABLES
    cpus,          \* os.cpus().length of the machine
    production,    \* process.env.NODE_ENV === 'production'
    queue,         \* pLimit: the waiting tasks, oldest first
    active,        \* pLimit: the counter of admitted tasks
    task,          \* per task: "none", "queued", "running" or "done" (its closure)
    outcome,       \* per task: how its closure settled: "none", "ok", "err"
    promise,       \* per task: the promise limit(fn) returned: "pending", "resolved", "rejected"
    submitted,     \* the tasks in the order limit(fn) was called
    started,       \* the tasks in the order their closures were started
    nextUuid,      \* the next value uuidv4() returns
    req,           \* per job: the request body it is called with
    pc,            \* per job: where the handler is suspended
    sessionDir,    \* per job: its sessionId (0: none yet)
    results,       \* per job: the values array of Promise.all(downloadTasks)
    downloaded,    \* per job: the array `downloaded`
    segVideoPaths, \* per job: the array `segVideoPaths` of the fallback loop
    fastCalls,     \* per job: the calls of createVideoFromSegments (their ffmpeg inputs)
    segCalls,      \* per job: the calls of createSegmentVideo
    concatCalls,   \* per job: the calls of concatVideos (their clip lists)
    uploadCalls,   \* per job: the calls of uploadVideoToSupabase
    fastRes,       \* per job: how the fast render ended: "none", "ok", "fail"
    concatRes,     \* per job: how concatVideos ended: "none", "ok", "fail"
    resp,          \* per job: the responses sent on res
    err,           \* per job: the error the catch block caught
    dirExists,     \* per job: its session directory exists on disk
    rmPending,     \* per job: an rm(sessionDir) is in progress
    outOfOrder,    \* per job (history): a download resolved before one of a lower index
    rmLog,         \* per job (history): the rm(sessionDir) calls that settled
    proc,          \* per fallback render: the ffmpeg process: "none", "running", "ended", "errored", "killed"
    timeout,       \* per fallback render: the timer `timeout`: "unset", "armed", "cleared", "fired"
    elapsed,       \* per fallback render: ticks since its 'start' event
    segPromise,    \* per fallback render: the promise createSegmentVideo returned
    settleCalls,   \* per fallback render (history): the calls of resolve and reject
    scale,         \* createVideoFromSegments: one image's probe and its scale filter
    norm,          \* segments.map: one raw segment and its normalised form
    fPc,           \* downloadFileToPath: "off", "request", "writing", "backoff", "returned", "threw"
    fUrl,          \* downloadFileToPath: its url argument
    fRetries,      \* downloadFileToPath: options.retries
    attempt,       \* downloadFileToPath: the counter `attempt`
    fLog,          \* downloadFileToPath: what each attempt so far met
    fWaits,        \* downloadFileToPath: the backoff delays waited, in ms
    fErr           \* downloadFileToPath: the error it threw

envVars == <<cpus, production>>
fetchVars == <<fPc, fUrl, fRetries, attempt, fLog, fWaits, fErr>>
pureVars == <<scale, norm>>
renderVars == <<proc, timeout, elapsed, segPromise, settleCalls>>
limVars == <<queue, active, task, outcome, promise, submitted, started>>
jobVars == <<nextUuid, req, pc, sessionDir, results, downloaded, segVideoPaths,
             fastCalls, segCalls, concatCalls, uploadCalls, fastRes, concatRes,
             resp, err, dirExists, rmPending, outOfOrder, rmLog>>

\* ----------------------------------------------------------------- pLimit
Max(a, b) == IF a >= b THEN a ELSE b

\* const MAX_CONCURRENCY = Math.max(1, os.cpus().length - 1)
MAX_CONCURRENCY == Max(1, cpus - 1)

\* The limiter's state as one value, so that its functions compose.
Limiter == [queue |-> queue, active |-> active, task |-> task,
            submitted |-> submitted, started |-> started]

\* next() with the pool test off by one: active > concurrency.
pNextOffByOne(L) ==
    IF Len(L.queue) = 0 \/ L.active > MAX_CONCURRENCY
    THEN L
    ELSE [L EXCEPT !.active = @ + 1,
                   !.queue = Tail(@),
                   !.task[Head(L.queue)] = "running",
                   !.started = Append(@, Head(L.queue))]

\* next() taking the newest waiting task (queue.pop) instead of the oldest.
pNextPop(L) ==
    IF Len(L.queue) = 0 \/ L.active >= MAX_CONCURRENCY
    THEN L
    ELSE [L EXCEPT !.active = @ + 1,
                   !.queue = SubSeq(@, 1, Len(@) - 1),
                   !.task[L.queue[Len(L.queue)]] = "running",
                   !.started = Append(@, L.queue[Len(L.queue)])]

\* next(): admit the head of the queue unless the pool is full; the closure
\* fn() is called synchronously, so the task is running when next returns.
pNext(L) ==
    IF Len(L.queue) = 0 \/ L.active >= MAX_CONCURRENCY
    THEN L
    ELSE [L EXCEPT !.active = @ + 1,
                   !.queue = Tail(@),
                   !.task[Head(L.queue)] = "running",
                   !.started = Append(@, Head(L.queue))]

\* limit(fn): queue.push({fn, resolve, reject}); next()
limit(L, t) ==
    pNext([L EXCEPT !.queue = Append(@, t),
                    !.task[t] = "queued",
                    !.submitted = Append(@, t)])

\* segments.map((seg, i) => limit(...)): limit is called for i = 1..n in turn
RECURSIVE limitAll(_, _, _, _)
limitAll(L, j, i, n) ==
    IF i > n THEN L ELSE limitAll(limit(L, <<j, i>>), j, i + 1, n)

\* The promise resolved whatever the closure's outcome.
SettlePromiseAlwaysResolves(o) == "resolved"

\* The promise limit(fn) returned, settled from the closure's outcome:
\* resolve(val) in the first callback of then, reject(err) in the second.
SettlePromise(o) == IF o = "ok" THEN "resolved" ELSE "rejected"

\* The first callback of Promise.resolve(fn()).then: active--; resolve(val); next()
onFulfilled(L) == pNext([L EXCEPT !.active = @ - 1])

\* The second callback without its decrement of active.
onRejectedKeepsSlot(L) == pNext(L)

\* The second callback without its call of next().
onRejectedNoNext(L) == [L EXCEPT !.active = @ - 1]

\* The second callback: active--; reject(err); next()
onRejected(L) == pNext([L EXCEPT !.active = @ - 1])

SetLimiter(L) ==
    /\ queue' = L.queue
    /\ active' = L.active
    /\ task' = L.task
    /\ submitted' = L.submitted
    /\ started' = L.started


\* ------------------------------------------------- the handler's functions
\* Files of a job, all join(sessionDir, ...): img_<i>, seg_<i>.mp4, final.mp4
Path(dir, file, i) == [dir |-> dir, file |-> file, i |-> i]
NoPath == Path(0, "", 0)
imgPath(dir, i) == Path(dir, "img", i)
segOut(dir, i) == Path(dir, "seg", i)
finalPath(dir) == Path(dir, "final", 0)

\* A slot of Promise.all's values array that no promise has filled yet.
Hole == [imagePath |-> NoPath, duration |-> Undefined, sub |-> FALSE]

\* What the closure given to limit returns for segment i of a request.
ClosureValue(dir, segs, i) ==
    [imagePath |-> imgPath(dir, i), duration |-> segs[i].duration, sub |-> segs[i].sub]

\* Promise.all storing each value at the first free slot (completion order).
PromiseAllStoreInArrivalOrder(values, i, v) ==
    [values EXCEPT ![CHOOSE k \in 1..Len(values) :
                        values[k].imagePath.dir = 0
                        /\ \A m \in 1..(k - 1) : values[m].imagePath.dir # 0] = v]

\* Promise.all: the value of the promise at index i goes to values[i].
PromiseAllStore(values, i, v) == [values EXCEPT ![i] = v]

\* downloaded.map(... createSubtitleFile ...): the import of createSubtitleFile
\* is commented out, so the call throws a ReferenceError for the first
\* segment that has subtitle data; no other segment gets a calculatedDuration.
SubtitleThrows(segs) == \E i \in 1..Len(segs) : segs[i].sub
subtitleResults(segs) == [i \in 1..Len(segs) |-> [calculatedDuration |-> Null]]

\* downloaded.forEach: seg.duration = calculatedDuration when that is truthy
UpdateDurations(segs, subs) ==
    [i \in 1..Len(segs) |->
        IF Truthy(subs[i].calculatedDuration)
        THEN [segs[i] EXCEPT !.duration = subs[i].calculatedDuration]
        ELSE segs[i]]

\* s.duration == null || !Number.isFinite(Number(s.duration))
DurationMissing(s) ==
    \/ s.duration.k \in {"undefined", "null"}
    \/ ~NumberIsFinite(ToNumber(s.duration))

\* findLastIndex in place of findIndex.
missingDurationLast(segs) ==
    IF \E i \in 1..Len(segs) : DurationMissing(segs[i])
    THEN (CHOOSE i \in 1..Len(segs) :
            /\ DurationMissing(segs[i])
            /\ \A k \in (i + 1)..Len(segs) : ~DurationMissing(segs[k])) - 1
    ELSE -1

\* downloaded.findIndex(DurationMissing), with the code's 0-based result:
\* the first index whose segment has no numeric duration, -1 when none has.
missingDuration(segs) ==
    IF \E i \in 1..Len(segs) : DurationMissing(segs[i])
    THEN (CHOOSE i \in 1..Len(segs) :
            /\ DurationMissing(segs[i])
            /\ \A k \in 1..(i - 1) : ~DurationMissing(segs[k])) - 1
    ELSE -1

\* createVideoFromSegments: the inputs added to the ffmpeg command, in the
\* order of segments.forEach, each held for -t duration when that is numeric.
FfmpegInputs(segs) ==
    [i \in 1..Len(segs) |->
        [imagePath |-> segs[i].imagePath,
         t |-> IF ~(segs[i].duration.k \in {"undefined", "null"})
                  /\ NumberIsFinite(ToNumber(segs[i].duration))
               THEN segs[i].duration ELSE Undefined]]

\* The concat filter's k-th scene is [sv<k>], made from input [<k>:v].
ConcatInput(k) == k
FastScenes(segs) ==
    [k \in 1..Len(segs) |-> FfmpegInputs(segs)[ConcatInput(k)]]

\* The call made without its duration argument.
SegCallWithoutDuration(dir, segs, i) ==
    [imagePath |-> segs[i].imagePath, outPath |-> segOut(dir, i),
     duration |-> Undefined]

\* The call createSegmentVideo({imagePath, outPath, duration, resolution})
\* made by the fallback loop for segment i.
SegCall(dir, segs, i) ==
    [imagePath |-> segs[i].imagePath, outPath |-> segOut(dir, i),
     duration |-> segs[i].duration]

\* createSegmentVideo: the parameter default `duration = 3` replaces an
\* undefined argument, and `if (duration)` adds -t only for a truthy value.
\* The length of the clip is that of -t; without -t the looped image has no
\* end (Undefined here).
DefaultDuration == Num(3)
ClipDuration(call) ==
    LET d == IF call.duration.k = "undefined" THEN DefaultDuration ELSE call.duration
    IN  IF Truthy(d) THEN d ELSE Undefined

\* ffmpeg can end a clip only if its length is bounded; else the 60 s timer
\* kills it and the promise rejects.
ClipEnds(call) == ClipDuration(call) # Undefined

Error(kind, index) == [kind |-> kind, index |-> index]
NoError == Error("none", -1)

\* The failure payload with err.message in every environment.
FailureResponseWithMessage(e) == [status |-> 500, details |-> e]

\* res.status(500).json({error, details}): details is the error's message
\* outside production and a fixed text in production.
FailureResponse(e) ==
    [status |-> 500, details |-> IF production THEN Error("Internal server error", -1) ELSE e]
SuccessResponse == [status |-> 200, details |-> NoError]
BadRequest(kind) == [status |-> 400, details |-> Error(kind, -1)]

\* The catch block of the handler, run for job j with error e.
Catch(j, e) ==
    /\ err' = [err EXCEPT ![j] = e]
    /\ rmPending' = [rmPending EXCEPT ![j] = production]
    /\ resp' = [resp EXCEPT ![j] = Append(@, FailureResponse(e))]
    /\ pc' = [pc EXCEPT ![j] = "failed"]

\* The call uploadVideoToSupabase(finalPath, videoJobId).
StartUpload(j) ==
    /\ uploadCalls' = [uploadCalls EXCEPT ![j] = Append(@, finalPath(sessionDir[j]))]
    /\ pc' = [pc EXCEPT ![j] = "upload"]
    /\ UNCHANGED <<err, rmPending, resp>>


\* ------------------------------------------------------ downloadFileToPath
MaxRetries == 2     \* options.retries ranges over 0..MaxRetries
DefaultRetries == 2  \* retries = 2 in the options' defaults
RetryDelay == 500    \* retryDelay = 500 in the options' defaults

Urls == {"https://a/1.png", "https://b/2.png"}
Statuses == {199, 200, 299, 300, 400, 401, 403, 404, 429, 500}

\* What one attempt meets: a response with a status whose body is then
\* written to destPath or fails to be written, or a transport error (axios
\* rejects with an error that has no response and no status; status 0 here).
Met(status, written) == [status |-> status, written |-> written]
TransportError == Met(0, FALSE)
Outcomes ==
    { Met(s, s >= 200 /\ s < 300) : s \in Statuses } \cup {Met(200, FALSE), TransportError}

\* !resp || !resp.status || resp.status < 200 || resp.status >= 300
NotOk(status) == status = 0 \/ status < 200 \/ status >= 300

\* The error the try block throws for an attempt, as the catch block sees
\* it: a non-2xx response throws e with e.status = resp.status; a transport
\* error or a failed write throws an error without status (0).
ThrownStatus(o) == IF o.status # 0 /\ NotOk(o.status) THEN o.status ELSE 0

\* Every 4xx status taken as final, 429 included.
NonRetryableAny4xx(status) == status # 0 /\ status >= 400 /\ status < 500

\* status && [400, 401, 403, 404].includes(status)
NonRetryable(status) == status # 0 /\ status \in {400, 401, 403, 404}

\* The budget test off by one: attempt >= retries.
ExhaustedOffByOne(a, r) == a >= r

\* attempt > retries
Exhausted(a, r) == a > r

FetchError(status, url, attempts) == [status |-> status, url |-> url, attempts |-> attempts]
NoFetchError == FetchError(0, "", 0)

\* The thrown error without e.url.
ThrownErrorNoUrl(status, url, a) == [status |-> status, url |-> "", attempts |-> a]

\* The error e thrown by the catch block: e.status = status; e.url = url
ThrownError(status, url, a) == FetchError(status, url, a)

\* retryDelay * attempt
Backoff(a) == RetryDelay * a

\* The catch block for the error of the current attempt.
FetchCatch(status) ==
    IF NonRetryable(status) \/ Exhausted(attempt, fRetries)
    THEN /\ fErr' = ThrownError(status, fUrl, attempt)
         /\ fPc' = "threw"
         /\ UNCHANGED fWaits
    ELSE /\ fWaits' = Append(fWaits, Backoff(attempt))
         /\ fPc' = "backoff"
         /\ UNCHANGED fErr

\* axiosInstance.get settles for the current attempt with outcome o.
FetchResponse(o) ==
    /\ fPc = "request"
    /\ fLog' = Append(fLog, o)
    /\ IF o.status # 0 /\ ~NotOk(o.status)
       THEN /\ fPc' = "writing"
            /\ UNCHANGED <<fErr, fWaits>>
       ELSE FetchCatch(ThrownStatus(o))
    /\ UNCHANGED <<fUrl, fRetries, attempt, envVars, pureVars, limVars, jobVars, renderVars>>

\* mkdir and streamPipeline settle for the current attempt: `return` when
\* the file was written, else the catch block with an error without status.
FetchWriteEnd ==
    /\ fPc = "writing"
    /\ IF fLog[attempt].written
       THEN /\ fPc' = "returned"
            /\ UNCHANGED <<fErr, fWaits>>
       ELSE FetchCatch(ThrownStatus(fLog[attempt]))
    /\ UNCHANGED <<fUrl, fRetries, attempt, fLog, envVars, pureVars, limVars, jobVars, renderVars>>

\* The backoff timer fires: the loop starts the next attempt (attempt++).
FetchBackoffEnd ==
    /\ fPc = "backoff"
    /\ attempt' = attempt + 1
    /\ fPc' = "request"
    /\ UNCHANGED <<fUrl, fRetries, fLog, fWaits, fErr, envVars, pureVars, limVars, jobVars, renderVars>>


\* ------------------------------------ createVideoFromSegments: scale filter
MaxDim == 6       \* probed widths and heights range over 0..MaxDim (0: unknown)
MaxTarget == 4    \* target widths and heights range over 1..MaxTarget

\* JavaScript numbers that are ratios of integers, as exact fractions.
Rat(n, d) == [num |-> n, den |-> d]
RatLeq(a, b) == a.num * b.den <= b.num * a.den
RatMin(a, b) == IF RatLeq(a, b) THEN a ELSE b
RECURSIVE Gcd(_, _)
Gcd(a, b) == IF b = 0 THEN a ELSE Gcd(b, a % b)
RECURSIVE IsPowerOfTwo(_)
IsPowerOfTwo(n) == n = 1 \/ (n > 1 /\ n % 2 = 0 /\ IsPowerOfTwo(n \div 2))

\* A double holds the fraction exactly only if its reduced denominator is a
\* power of two; any other quotient is rounded.
ExactDouble(f) == IsPowerOfTwo(f.den \div Gcd(f.num, f.den))

\* Math.min(ratioW, ratioH) without the cap at 1.
factorUncapped(W, H, iw, ih) == RatMin(Rat(W, iw), Rat(H, ih))

\* const factor = Math.min(ratioW, ratioH, 1), ratioW = width / iw and
\* ratioH = height / ih
factor(W, H, iw, ih) == RatMin(RatMin(Rat(W, iw), Rat(H, ih)), Rat(1, 1))

\* The values Math.floor(n * f) can take in double arithmetic: the exact
\* floor, or one less when f was rounded and the exact product is an
\* integer (the rounded product may fall just below it).
FloorOfProduct(n, f) ==
    LET e == (n * f.num) \div f.den
    IN  IF ~ExactDouble(f) /\ (n * f.num) % f.den = 0 THEN {e, e - 1} ELSE {e}

\* Math.max(1, Math.floor(n * factor))
scaled(n, f) == { Max(1, v) : v \in FloorOfProduct(n, f) }

NoScale == [pc |-> "off", iw |-> 0, ih |-> 0, W |-> 0, H |-> 0,
            filter |-> "none", scaledW |-> 0, scaledH |-> 0]

\* forEach body for one segment: without probed dimensions the filter is
\* the fit-and-pad form; else it is scale=scaledW:scaledH and pad.
BuildFilter ==
    /\ scale.pc = "probed"
    /\ IF scale.iw = 0 \/ scale.ih = 0
       THEN scale' = [scale EXCEPT !.pc = "built", !.filter = "fit-and-pad"]
       ELSE LET f == factor(scale.W, scale.H, scale.iw, scale.ih)
            IN  \E sw \in scaled(scale.iw, f), sh \in scaled(scale.ih, f) :
                    scale' = [scale EXCEPT !.pc = "built", !.filter = "scale",
                                           !.scaledW = sw, !.scaledH = sh]
    /\ UNCHANGED <<norm, fetchVars, envVars, limVars, jobVars, renderVars>>

\* -------------------------------------------- segments.map: normalisation
\* A raw segment of the body: an object, whose fields are absent
\* (Undefined) or carry a value, or the value null.
Obj == [k |-> "object", n |-> 0, s |-> ""]
ImageAliases == <<"imageUrl", "image_Url", "image_url", "image">>
DurationAliases == <<"duration", "length", "time">>
ImageValues(alias) == {Undefined, Str(""), Str(alias)}
DurationValues(n) == {Undefined, Null, Num(0), Num(n)}
RawSegments ==
    { [self |-> Obj, imageUrl |-> a, image_Url |-> b, image_url |-> c, image |-> d,
       duration |-> e, length |-> f, time |-> g, caption |-> x] :
        a \in ImageValues("imageUrl"), b \in ImageValues("image_Url"),
        c \in ImageValues("image_url"), d \in ImageValues("image"),
        e \in DurationValues(1), f \in DurationValues(2), g \in DurationValues(3),
        x \in {Undefined, Str("caption")} }
NullSegment ==
    [self |-> Null, imageUrl |-> Undefined, image_Url |-> Undefined,
     image_url |-> Undefined, image |-> Undefined, duration |-> Undefined,
     length |-> Undefined, time |-> Undefined, caption |-> Undefined]

\* a ?? b taken for a || b.
JsOrNullish(a, b) == IF a.k \in {"undefined", "null"} THEN b ELSE a

\* a || b
JsOr(a, b) == IF Truthy(a) THEN a ELSE b
\* a ?? b
JsCoalesce(a, b) == IF a.k \in {"undefined", "null"} THEN b ELSE a
\* a && b
JsAnd(a, b) == IF Truthy(a) THEN b ELSE a

\* The object segments.map builds for the raw segment s (imageUrl and
\* duration; the other fields are built the same way).
normalize(s) ==
    [imageUrl |-> JsAnd(s.self, JsOr(JsOr(JsOr(s.imageUrl, s.image_Url), s.image_url), s.image)),
     duration |-> JsAnd(s.self, JsCoalesce(JsCoalesce(s.duration, s.length), s.time))]

NoNorm == [pc |-> "off", raw |-> NullSegment, out |-> normalize(NullSegment)]

\* rawSegments.map runs its callback on the raw segment.
Normalize ==
    /\ norm.pc = "raw"
    /\ norm' = [norm EXCEPT !.pc = "done", !.out = normalize(norm.raw)]
    /\ UNCHANGED <<scale, fetchVars, envVars, limVars, jobVars, renderVars>>

\* Neither the scale computation nor the normalisation is followed.
PureOff == scale = NoScale /\ norm = NoNorm

\* ------------------------------------------------------------------- Init
NoJob == [j \in Jobs |-> <<>>]

InitState ==
    /\ cpus \in {1, MaxCpus}
    /\ production \in BOOLEAN
    /\ queue = <<>>
    /\ active = 0
    /\ task = [t \in TaskIds |-> "none"]
    /\ outcome = [t \in TaskIds |-> "none"]
    /\ promise = [t \in TaskIds |-> "pending"]
    /\ submitted = <<>>
    /\ started = <<>>
    /\ nextUuid = 1
    /\ pc = [j \in Jobs |-> "idle"]
    /\ sessionDir = [j \in Jobs |-> 0]
    /\ results = NoJob
    /\ downloaded = NoJob
    /\ segVideoPaths = NoJob
    /\ fastCalls = NoJob
    /\ segCalls = NoJob
    /\ concatCalls = NoJob
    /\ uploadCalls = NoJob
    /\ fastRes = [j \in Jobs |-> "none"]
    /\ concatRes = [j \in Jobs |-> "none"]
    /\ resp = NoJob
    /\ err = [j \in Jobs |-> NoError]
    /\ dirExists = [j \in Jobs |-> FALSE]
    /\ rmPending = [j \in Jobs |-> FALSE]
    /\ outOfOrder = [j \in Jobs |-> FALSE]
    /\ rmLog = NoJob
    /\ proc = [t \in TaskIds |-> "none"]
    /\ timeout = [t \in TaskIds |-> "unset"]
    /\ elapsed = [t \in TaskIds |-> 0]
    /\ segPromise = [t \in TaskIds |-> "pending"]
    /\ settleCalls = [t \in TaskIds |-> <<>>]

\* No call of downloadFileToPath is followed step by step.
FetchOff ==
    /\ fPc = "off"
    /\ fUrl = ""
    /\ fRetries = 0
    /\ attempt = 0
    /\ fLog = <<>>
    /\ fWaits = <<>>
    /\ fErr = NoFetchError

\* One client sends one request, any of RichRequests; the other jobs never
\* start.
Init ==
    /\ InitState
    /\ FetchOff
    /\ PureOff
    /\ \E r \in RichRequests : req = [j \in Jobs |-> IF j = 1 THEN r ELSE NoRequest]

\* Every job is sent a request with valid plain segments: the handler runs
\* overlap and their downloads contend for the one limiter.
InitShared ==
    /\ InitState
    /\ FetchOff
    /\ PureOff
    /\ req \in [Jobs -> PlainRequests]

\* ---------------------------------------------------------------- actions
\* The handler throws outside its try block: its promise rejects and the
\* catch block does not run. What the client gets is up to the framework:
\* nothing (Express 4 ignores the promise an async handler returns) or the
\* default error handler's 500 (Express 5).
FrameworkError == [status |-> 500, details |-> Error("default error handler", -1)]
Throw(j) ==
    /\ pc' = [pc EXCEPT ![j] = "threw"]
    /\ \E handled \in BOOLEAN :
          resp' = [resp EXCEPT ![j] = IF handled THEN Append(@, FrameworkError) ELSE @]

\* The session directory named after the caller's jobId.
sessionIdFromJobId(id, n) == Len(id.s)

\* const sessionId = uuidv4(), the n-th value the generator returns: a
\* fresh token, whatever the jobId.
sessionId(id, n) == n

\* POST /generate-video arrives: the handler runs up to `await mkdir`.
Request(j) ==
    /\ pc[j] = "idle"
    /\ req[j] # NoRequest
    /\ IF ~JobIdOk(req[j].jobId)
       THEN /\ resp' = [resp EXCEPT ![j] = Append(@, BadRequest("jobId required in request body"))]
            /\ pc' = [pc EXCEPT ![j] = "rejected"]
            /\ UNCHANGED <<sessionDir, nextUuid>>
       ELSE IF req[j].preset
       THEN \* getSubtitleStylePresets is not defined: a ReferenceError
            /\ Throw(j)
            /\ UNCHANGED <<sessionDir, nextUuid>>
       ELSE IF ~req[j].isArray \/ Len(req[j].segments) = 0
       THEN /\ resp' = [resp EXCEPT ![j] = Append(@, BadRequest("segments array required"))]
            /\ pc' = [pc EXCEPT ![j] = "rejected"]
            /\ UNCHANGED <<sessionDir, nextUuid>>
       ELSE /\ sessionDir' = [sessionDir EXCEPT ![j] = sessionId(req[j].jobId, nextUuid)]
            /\ nextUuid' = nextUuid + 1
            /\ pc' = [pc EXCEPT ![j] = "mkdir"]
            /\ UNCHANGED resp
    /\ UNCHANGED <<renderVars, rmLog, outOfOrder, fetchVars, envVars, pureVars, limVars, req, results, downloaded, segVideoPaths, fastCalls,
                   segCalls, concatCalls, uploadCalls, fastRes, concatRes, err,
                   dirExists, rmPending>>

\* mkdir(sessionDir) succeeded: the handler submits one download task per
\* segment to the limiter and awaits Promise.all.
MkdirDone(j) ==
    /\ pc[j] = "mkdir"
    /\ dirExists' = [dirExists EXCEPT ![j] = TRUE]
    /\ SetLimiter(limitAll(Limiter, j, 1, Len(req[j].segments)))
    /\ results' = [results EXCEPT ![j] = [i \in 1..Len(req[j].segments) |-> Hole]]
    /\ pc' = [pc EXCEPT ![j] = "fetching"]
    /\ UNCHANGED <<renderVars, rmLog, outOfOrder, fetchVars, envVars, pureVars, outcome, promise, nextUuid, req, sessionDir, downloaded,
                   segVideoPaths, fastCalls, segCalls, concatCalls, uploadCalls,
                   fastRes, concatRes, resp, err, rmPending>>

\* mkdir(sessionDir) failed: it is awaited outside the try block, so the
\* handler's promise rejects and the catch block does not run.
MkdirFail(j) ==
    /\ pc[j] = "mkdir"
    /\ Throw(j)
    /\ UNCHANGED <<renderVars, rmLog, outOfOrder, fetchVars, envVars, pureVars, limVars, nextUuid, req, sessionDir, results, downloaded,
                   segVideoPaths, fastCalls, segCalls, concatCalls, uploadCalls,
                   fastRes, concatRes, err, dirExists, rmPending>>

NumSegs(j) == Len(req[j].segments)

\* The handler's code after `await Promise.all`, with `values` the array the
\* await returned: the subtitle step, the duration validation and, when
\* both pass, the call of createVideoFromSegments, which the handler awaits.
AfterFetch(j, values) ==
    IF SubtitleThrows(values)
    THEN /\ downloaded' = [downloaded EXCEPT ![j] = values]
         /\ Catch(j, Error("createSubtitleFile is not defined", -1))
         /\ UNCHANGED fastCalls
    ELSE LET d == UpdateDurations(values, subtitleResults(values))
         IN  /\ downloaded' = [downloaded EXCEPT ![j] = d]
             /\ IF missingDuration(d) # -1
                THEN /\ Catch(j, Error("Payload validation failed", missingDuration(d)))
                     /\ UNCHANGED fastCalls
                ELSE /\ fastCalls' = [fastCalls EXCEPT ![j] =
                                         Append(@, [segments |-> d, scenes |-> FastScenes(d)])]
                     /\ pc' = [pc EXCEPT ![j] = "fast"]
                     /\ UNCHANGED <<err, rmPending, resp>>

\* downloadFileToPath settles for a running task (ok: it created the
\* directory of its destination and wrote the file; else it threw). The
\* promise reactions that follow run as microtasks before any other event:
\* the closure settles; pLimit's then callback gives the slot back, settles
\* the task's promise and calls next(); Promise.all stores a resolved value
\* at the task's index and resolves once every task of the job has resolved,
\* or rejects at the job's first rejected task, and the handler continues
\* after its await or in its catch block. Tasks of a handler that has left
\* the await stay in the limiter and settle without effect on the handler.
TaskSettle(t, ok) ==
    LET j == t[1]
        o == IF ok THEN "ok" ELSE "err"
        p == SettlePromise(o)
        settled == [Limiter EXCEPT !.task[t] = "done"]
        proms == [promise EXCEPT ![t] = p]
        values == IF p = "resolved"
                  THEN PromiseAllStore(results[j], t[2],
                                       ClosureValue(sessionDir[j], req[j].segments, t[2]))
                  ELSE results[j]
    IN  /\ task[t] = "running"
        /\ outcome' = [outcome EXCEPT ![t] = o]
        /\ promise' = proms
        /\ SetLimiter(IF ok THEN onFulfilled(settled) ELSE onRejected(settled))
        /\ results' = [results EXCEPT ![j] = values]
        /\ dirExists' = [dirExists EXCEPT ![j] = IF ok THEN TRUE ELSE @]
        /\ outOfOrder' = [outOfOrder EXCEPT ![j] =
              @ \/ (p = "resolved" /\ \E i \in 1..(t[2] - 1) : promise[<<j, i>>] = "pending")]
        /\ IF pc[j] = "fetching" /\ p = "rejected"
           THEN /\ Catch(j, Error("Request failed", -1))
                /\ UNCHANGED <<downloaded, fastCalls>>
           ELSE IF pc[j] = "fetching" /\ \A i \in 1..NumSegs(j) : proms[<<j, i>>] = "resolved"
           THEN AfterFetch(j, values)
           ELSE UNCHANGED <<pc, err, rmPending, resp, downloaded, fastCalls>>
        /\ UNCHANGED <<fetchVars, envVars, pureVars, nextUuid, req, sessionDir, segVideoPaths,
                       segCalls, concatCalls, uploadCalls, fastRes, concatRes, rmLog,
                       renderVars>>

\* createVideoFromSegments settled, and the per-segment loop starts whether
\* it failed or not.
FastEndAlwaysFallback(j, ok) ==
    /\ pc[j] = "fast"
    /\ fastRes' = [fastRes EXCEPT ![j] = IF ok THEN "ok" ELSE "fail"]
    /\ segCalls' = [segCalls EXCEPT ![j] = Append(@, SegCall(sessionDir[j], downloaded[j], 1))]
    /\ pc' = [pc EXCEPT ![j] = "seg"]
    /\ UNCHANGED <<uploadCalls, err, rmPending, resp>>
    /\ UNCHANGED <<renderVars, rmLog, outOfOrder, fetchVars, envVars, pureVars, limVars, nextUuid, req, sessionDir,
                   results, downloaded, segVideoPaths, fastCalls, concatCalls, concatRes,
                   dirExists>>

\* createVideoFromSegments settled. On success the handler uploads; on
\* failure it starts the fallback loop with createSegmentVideo for segment 1.
FastEnd(j, ok) ==
    /\ pc[j] = "fast"
    /\ fastRes' = [fastRes EXCEPT ![j] = IF ok THEN "ok" ELSE "fail"]
    /\ IF ok
       THEN /\ StartUpload(j)
            /\ UNCHANGED segCalls
       ELSE /\ segCalls' = [segCalls EXCEPT ![j] =
                               Append(@, SegCall(sessionDir[j], downloaded[j], 1))]
            /\ pc' = [pc EXCEPT ![j] = "seg"]
            /\ UNCHANGED <<uploadCalls, err, rmPending, resp>>
    /\ UNCHANGED <<renderVars, rmLog, outOfOrder, fetchVars, envVars, pureVars, limVars, nextUuid, req, sessionDir, results, downloaded,
                   segVideoPaths, fastCalls, concatCalls, concatRes, dirExists>>

\* The handler's code after `await createSegmentVideo(...)` settled for the
\* segment the fallback loop is at. On success the clip's path is pushed and
\* the loop renders the next segment or, after the last, calls concatVideos;
\* on failure the error leaves the loop for the catch block.
AfterSegment(j, ok) ==
    /\ pc[j] = "seg"
    /\ ok => ClipEnds(segCalls[j][Len(segCalls[j])])
    /\ LET i == Len(segVideoPaths[j]) + 1
           paths == Append(segVideoPaths[j], segOut(sessionDir[j], i))
       IN  IF ~ok
           THEN /\ Catch(j, Error("createSegmentVideo failed", -1))
                /\ UNCHANGED <<segVideoPaths, segCalls, concatCalls>>
           ELSE /\ segVideoPaths' = [segVideoPaths EXCEPT ![j] = paths]
                /\ IF i < Len(downloaded[j])
                   THEN /\ segCalls' = [segCalls EXCEPT ![j] =
                                Append(@, SegCall(sessionDir[j], downloaded[j], i + 1))]
                        /\ UNCHANGED <<concatCalls, pc>>
                   ELSE /\ concatCalls' = [concatCalls EXCEPT ![j] = Append(@, paths)]
                        /\ pc' = [pc EXCEPT ![j] = "concat"]
                        /\ UNCHANGED segCalls
                /\ UNCHANGED <<err, rmPending, resp>>
    /\ UNCHANGED <<rmLog, outOfOrder, fetchVars, envVars, pureVars, limVars, nextUuid, req, sessionDir, results, downloaded,
                   fastCalls, uploadCalls, fastRes, concatRes, dirExists>>

\* createSegmentVideo settled for the segment the loop is at. On success its
\* path is pushed and the loop renders the next segment or, after the last,
\* calls concatVideos; on failure (an ffmpeg error or the timeout) the error
\* leaves the loop for the catch block.
SegEnd(j, ok) ==
    /\ AfterSegment(j, ok)
    /\ UNCHANGED renderVars

\* ---------------------------------------------- createSegmentVideo, stepwise
\* The 60000 ms of setTimeout, counted in ticks of the clock.
TimeoutTicks == 2

\* clearTimeout(timeout): an armed timer is disarmed; a timer that has fired
\* or was cleared is left as it is.
clearTimeout(tm) == IF tm = "armed" THEN "cleared" ELSE tm

\* The 'error' handler leaving the timer alone.
onErrorTimerKept(tm) == tm

\* if (timeout) clearTimeout(timeout), in the 'end' and 'error' handlers:
\* `timeout` is undefined until the 'start' handler has set it.
onEndTimer(tm) == IF tm = "unset" THEN tm ELSE clearTimeout(tm)
onErrorTimer(tm) == IF tm = "unset" THEN tm ELSE clearTimeout(tm)

\* resolve(v) or reject(e) on the promise of createSegmentVideo: the first
\* call settles it, later calls do nothing.
SettleOnce(p, call) ==
    IF p # "pending" THEN p
    ELSE IF call = "resolve" THEN "resolved" ELSE "rejected"

\* The render the fallback loop of job j is awaiting.
CurrentRender(j) == <<j, Len(segVideoPaths[j]) + 1>>

\* A handler of the render t calls resolve or reject: the promise settles
\* if it was pending, and then the handler of job j continues after its
\* await; a call on a settled promise changes nothing.
RenderSettle(t, call) ==
    /\ segPromise' = [segPromise EXCEPT ![t] = SettleOnce(@, call)]
    /\ settleCalls' = [settleCalls EXCEPT ![t] = Append(@, call)]
    /\ IF segPromise[t] = "pending"
       THEN AfterSegment(t[1], call = "resolve")
       ELSE UNCHANGED <<fetchVars, envVars, pureVars, limVars, jobVars>>

\* cmd.run() has spawned ffmpeg: the 'start' handler arms the timer.
RenderStart(j) ==
    LET t == CurrentRender(j)
    IN  /\ pc[j] = "seg"
        /\ proc[t] = "none"
        /\ proc' = [proc EXCEPT ![t] = "running"]
        /\ timeout' = [timeout EXCEPT ![t] = "armed"]
        /\ elapsed' = [elapsed EXCEPT ![t] = 0]
        /\ UNCHANGED <<segPromise, settleCalls, fetchVars, envVars, pureVars, limVars, jobVars>>

\* Time passes while the timer of render t is armed.
RenderTick(t) ==
    /\ timeout[t] = "armed"
    /\ elapsed[t] < TimeoutTicks
    /\ elapsed' = [elapsed EXCEPT ![t] = @ + 1]
    /\ UNCHANGED <<proc, timeout, segPromise, settleCalls, fetchVars, envVars, pureVars, limVars, jobVars>>

\* ffmpeg exits normally, which it can only when the clip has an end: the
\* 'end' handler clears the timer and resolves.
RenderEnd(t) ==
    /\ proc[t] = "running"
    /\ ClipEnds(segCalls[t[1]][t[2]])
    /\ proc' = [proc EXCEPT ![t] = "ended"]
    /\ timeout' = [timeout EXCEPT ![t] = onEndTimer(@)]
    /\ RenderSettle(t, "resolve")
    /\ UNCHANGED elapsed

\* ffmpeg cannot be spawned, exits with an error, or exits after it was
\* killed: the 'error' handler clears the timer and rejects.
RenderError(t) ==
    /\ \/ proc[t] \in {"running", "killed"}
       \/ proc[t] = "none" /\ pc[t[1]] = "seg" /\ t = CurrentRender(t[1])
    /\ proc' = [proc EXCEPT ![t] = "errored"]
    /\ timeout' = [timeout EXCEPT ![t] = onErrorTimer(@)]
    /\ RenderSettle(t, "reject")
    /\ UNCHANGED elapsed

\* The timer of render t expires: cmd.kill('SIGKILL') and reject.
RenderTimeout(t) ==
    /\ timeout[t] = "armed"
    /\ elapsed[t] = TimeoutTicks
    /\ timeout' = [timeout EXCEPT ![t] = "fired"]
    /\ proc' = [proc EXCEPT ![t] = IF @ = "running" THEN "killed" ELSE @]
    /\ RenderSettle(t, "reject")
    /\ UNCHANGED elapsed

\* concatVideos settled, with its failure ignored: the upload starts anyway.
ConcatEndIgnoresFailure(j, ok) ==
    /\ pc[j] = "concat"
    /\ concatRes' = [concatRes EXCEPT ![j] = IF ok THEN "ok" ELSE "fail"]
    /\ StartUpload(j)
    /\ UNCHANGED <<renderVars, rmLog, outOfOrder, fetchVars, envVars, pureVars, limVars, nextUuid, req, sessionDir,
                   results, downloaded, segVideoPaths, fastCalls, segCalls, concatCalls,
                   fastRes, dirExists>>

\* concatVideos settled.
ConcatEnd(j, ok) ==
    /\ pc[j] = "concat"
    /\ concatRes' = [concatRes EXCEPT ![j] = IF ok THEN "ok" ELSE "fail"]
    /\ IF ok
       THEN StartUpload(j)
       ELSE /\ Catch(j, Error("concatVideos failed", -1))
            /\ UNCHANGED uploadCalls
    /\ UNCHANGED <<renderVars, rmLog, outOfOrder, fetchVars, envVars, pureVars, limVars, nextUuid, req, sessionDir, results, downloaded,
                   segVideoPaths, fastCalls, segCalls, concatCalls, fastRes, dirExists>>

\* uploadVideoToSupabase settled. On success the handler sends {jobId, url}
\* and then starts rm(sessionDir) without awaiting it.
UploadEnd(j, ok) ==
    /\ pc[j] = "upload"
    /\ IF ok
       THEN /\ resp' = [resp EXCEPT ![j] = Append(@, SuccessResponse)]
            /\ rmPending' = [rmPending EXCEPT ![j] = TRUE]
            /\ pc' = [pc EXCEPT ![j] = "done"]
            /\ UNCHANGED err
       ELSE Catch(j, Error("Supabase upload failed", -1))
    /\ UNCHANGED <<renderVars, rmLog, outOfOrder, fetchVars, envVars, pureVars, limVars, nextUuid, req, sessionDir, results, downloaded,
                   segVideoPaths, fastCalls, segCalls, concatCalls, uploadCalls,
                   fastRes, concatRes, dirExists>>

\* fs rm(path, options) on a directory that exists or not: the directory is
\* gone afterwards; an absent path is an error (ENOENT) unless options.force;
\* fault: the removal itself fails (EBUSY, EPERM, EACCES) and the promise
\* rejects with the directory left in place.
rmWithoutForce(exists, options, fault) ==
    IF fault THEN [exists |-> exists, raised |-> TRUE]
    ELSE [exists |-> FALSE, raised |-> ~exists]
rm(exists, options, fault) ==
    IF fault THEN [exists |-> exists, raised |-> TRUE]
    ELSE [exists |-> FALSE, raised |-> ~exists /\ ~options.force]
rmOptions == [recursive |-> TRUE, force |-> TRUE]

\* A pending rm(sessionDir, rmOptions) settles; a rejection goes to
\* .catch(console.error) and nowhere else.
RmSettle(j, fault) ==
    LET r == rm(dirExists[j], rmOptions, fault)
    IN  /\ rmPending[j]
        /\ rmPending' = [rmPending EXCEPT ![j] = FALSE]
        /\ dirExists' = [dirExists EXCEPT ![j] = r.exists]
        /\ rmLog' = [rmLog EXCEPT ![j] =
              Append(@, [existed |-> dirExists[j], fault |-> fault,
                         raised |-> r.raised, after |-> r.exists])]
        /\ UNCHANGED <<renderVars, outOfOrder, fetchVars, envVars, pureVars, limVars, nextUuid, req, pc, sessionDir,
                       results, downloaded, segVideoPaths, fastCalls, segCalls,
                       concatCalls, uploadCalls, fastRes, concatRes, resp, err>>

\* A pending rm(sessionDir, {recursive, force}) completes.
RmDone(j) == RmSettle(j, FALSE)

\* A pending rm(sessionDir, {recursive, force}) fails.
RmFail(j) == RmSettle(j, TRUE)

vars == <<cpus, production, queue, active, task, outcome, promise, submitted, started,
          nextUuid, req, pc, sessionDir, results, downloaded, segVideoPaths,
          fastCalls, segCalls, concatCalls, uploadCalls, fastRes, concatRes,
          resp, err, dirExists, rmPending, outOfOrder, rmLog,
          proc, timeout, elapsed, segPromise, settleCalls, scale, norm,
          fPc, fUrl, fRetries, attempt, fLog, fWaits, fErr>>

Next ==
    \/ \E j \in Jobs : Request(j)
    \/ \E j \in Jobs : MkdirDone(j)
    \/ \E j \in Jobs : MkdirFail(j)
    \/ \E t \in TaskIds, ok \in BOOLEAN : TaskSettle(t, ok)
    \/ \E j \in Jobs, ok \in BOOLEAN : FastEnd(j, ok)
    \/ \E j \in Jobs, ok \in BOOLEAN : SegEnd(j, ok)
    \/ \E j \in Jobs, ok \in BOOLEAN : ConcatEnd(j, ok)
    \/ \E j \in Jobs, ok \in BOOLEAN : UploadEnd(j, ok)
    \/ \E j \in Jobs : RmDone(j)
    \/ \E j \in Jobs : RmFail(j)

\* A call downloadFileToPath(url, destPath, {retries}) that has entered its
\* loop and awaits its first request; no job runs.
InitFetch ==
    /\ InitState
    /\ PureOff
    /\ cpus = 1
    /\ production = FALSE
    /\ req = [j \in Jobs |-> NoRequest]
    /\ fPc = "request"
    /\ fUrl \in Urls
    /\ fRetries \in (0..MaxRetries) \cup {DefaultRetries}
    /\ attempt = 1
    /\ fLog = <<>>
    /\ fWaits = <<>>
    /\ fErr = NoFetchError

NextFetch ==
    \/ \E o \in Outcomes : FetchResponse(o)
    \/ FetchWriteEnd
    \/ FetchBackoffEnd

\* rm(sessionDir, rmOptions).catch(console.error) is called once more on the
\* directory of a finished job, as a release repeated on the same directory.
MaxReleases == 2
ProgramReleases(j) == IF pc[j] = "done" \/ (pc[j] = "failed" /\ production) THEN 1 ELSE 0
ReleaseAgain(j) ==
    /\ pc[j] \in {"done", "failed"}
    /\ ~rmPending[j]
    /\ Len(rmLog[j]) < ProgramReleases(j) + MaxReleases
    /\ rmPending' = [rmPending EXCEPT ![j] = TRUE]
    /\ UNCHANGED <<renderVars, rmLog, outOfOrder, fetchVars, envVars, pureVars, limVars, nextUuid, req, pc, sessionDir,
                   results, downloaded, segVideoPaths, fastCalls, segCalls,
                   concatCalls, uploadCalls, fastRes, concatRes, resp, err, dirExists>>

NextRelease ==
    \/ Next
    \/ \E j \in Jobs : ReleaseAgain(j)

\* The server with every createSegmentVideo call followed step by step.
NextRender ==
    \/ \E j \in Jobs : Request(j)
    \/ \E j \in Jobs : MkdirDone(j)
    \/ \E j \in Jobs : MkdirFail(j)
    \/ \E t \in TaskIds, ok \in BOOLEAN : TaskSettle(t, ok)
    \/ \E j \in Jobs, ok \in BOOLEAN : FastEnd(j, ok)
    \/ \E j \in Jobs : RenderStart(j)
    \/ \E t \in TaskIds : RenderTick(t)
    \/ \E t \in TaskIds : RenderEnd(t)
    \/ \E t \in TaskIds : RenderError(t)
    \/ \E t \in TaskIds : RenderTimeout(t)
    \/ \E j \in Jobs, ok \in BOOLEAN : ConcatEnd(j, ok)
    \/ \E j \in Jobs, ok \in BOOLEAN : UploadEnd(j, ok)
    \/ \E j \in Jobs : RmDone(j)
    \/ \E j \in Jobs : RmFail(j)

\* No job runs and no download is followed.
Idle ==
    /\ InitState
    /\ FetchOff
    /\ cpus = 1
    /\ production = FALSE
    /\ req = [j \in Jobs |-> NoRequest]

\* createVideoFromSegments has probed one image, of size iw x ih or of
\* unknown size (0), for a target of W x H.
InitScale ==
    /\ Idle
    /\ norm = NoNorm
    /\ \E iw \in 0..MaxDim, ih \in 0..MaxDim, W \in 1..MaxTarget, H \in 1..MaxTarget :
          scale = [NoScale EXCEPT !.pc = "probed", !.iw = iw, !.ih = ih, !.W = W, !.H = H]

\* The handler is about to normalise one raw segment.
InitNormalize ==
    /\ Idle
    /\ scale = NoScale
    /\ \E s \in RawSegments \cup {NullSegment} : norm = [NoNorm EXCEPT !.pc = "raw", !.raw = s]

Spec == Init /\ [][Next]_vars

SpecShared == InitShared /\ [][Next]_vars

SpecRelease == Init /\ [][NextRelease]_vars

SpecRender == Init /\ [][NextRender]_vars

SpecScale == InitScale /\ [][BuildFilter]_vars

SpecNormalize == InitNormalize /\ [][Normalize]_vars

SpecFetch == InitFetch /\ [][NextFetch]_vars


\* ================================================================== claims
Running == {t \in TaskIds : task[t] = "running"}
Position(seq, x) == CHOOSE k \in 1..Len(seq) : seq[k] = x
InSeq(seq, x) == \E k \in 1..Len(seq) : seq[k] = x

\* C1: the publisher is called at most once per job, and only when a
\* complete render exists: the fast render succeeded, or it failed and every
\* fallback clip and the concatenation succeeded; a job that failed in
\* validation, fetch, fallback or concat never called it.
CompleteRender(j) ==
    \/ fastRes[j] = "ok"
    \/ /\ fastRes[j] = "fail"
       /\ Len(segVideoPaths[j]) = Len(req[j].segments)
       /\ concatRes[j] = "ok"
C1_PublishOnlyCompleteRender ==
    \A j \in Jobs :
        /\ Len(uploadCalls[j]) <= 1
        /\ Len(uploadCalls[j]) = 1 => CompleteRender(j)
        /\ (pc[j] = "failed" /\ err[j].kind # "Supabase upload failed")
              => Len(uploadCalls[j]) = 0
        /\ pc[j] \in {"rejected", "threw"} => Len(uploadCalls[j]) = 0
C1_Witness ==
    \E j \in Jobs :
        /\ Len(uploadCalls[j]) = 1
        /\ fastRes[j] = "fail"
        /\ Len(req[j].segments) = MaxSegs

\* C2: whatever the order in which a job's downloads complete, the record
\* at index i of `downloaded` carries the image path and the duration of
\* input segment i, and the scenes of the fast render, the clips rendered by
\* the fallback and the list given to concatVideos follow the input order.
InputOrder(j) ==
    LET n == Len(req[j].segments)
        dir == sessionDir[j]
    IN  /\ downloaded[j] # <<>> =>
              /\ Len(downloaded[j]) = n
              /\ \A i \in 1..n :
                    /\ downloaded[j][i].imagePath = Path(dir, "img", i)
                    /\ downloaded[j][i].duration = req[j].segments[i].duration
        /\ \A c \in 1..Len(fastCalls[j]) :
              /\ Len(fastCalls[j][c].scenes) = n
              /\ \A i \in 1..n :
                    /\ fastCalls[j][c].scenes[i].imagePath = Path(dir, "img", i)
                    /\ fastCalls[j][c].scenes[i].t = req[j].segments[i].duration
        /\ \A i \in 1..Len(segCalls[j]) :
              /\ segCalls[j][i].imagePath = Path(dir, "img", i)
              /\ segCalls[j][i].outPath = Path(dir, "seg", i)
              /\ segCalls[j][i].duration = req[j].segments[i].duration
        /\ \A c \in 1..Len(concatCalls[j]) :
              concatCalls[j][c] = [i \in 1..n |-> Path(dir, "seg", i)]
C2_SegmentOrderPreserved == \A j \in Jobs : InputOrder(j)
C2_Witness ==
    \E j \in Jobs :
        /\ outOfOrder[j]
        /\ Len(fastCalls[j]) = 1
        /\ Len(concatCalls[j]) = 1
        /\ req[j].segments[1].duration # req[j].segments[2].duration

\* C3: the number of closures started and not yet settled never exceeds
\* N = max(1, processing units - 1), with tasks of several jobs in the limiter.
C3_AtMostNRunning ==
    Cardinality(Running) <= (IF cpus - 1 >= 1 THEN cpus - 1 ELSE 1)
C3_Witness ==
    /\ cpus >= 3
    /\ Cardinality(Running) = cpus - 1
    /\ Len(queue) >= 1
    /\ \E a \in Running, b \in Running : a[1] # b[1]

\* C5: closures are started in submission order: a task is never started
\* while a task submitted before it has not been started.
C5_StartedInSubmissionOrder ==
    \A a \in 1..Len(submitted), b \in 1..Len(submitted) :
        (a < b /\ InSeq(started, submitted[b])) =>
            /\ InSeq(started, submitted[a])
            /\ Position(started, submitted[a]) < Position(started, submitted[b])
C5_Witness ==
    /\ Len(started) = 3
    /\ Len(queue) = 1
    /\ task[started[1]] = "running"
    /\ task[started[2]] = "done"
    /\ started[1][1] # started[3][1]


\* Scheduling: a started closure eventually settles (the claim's proviso).
Fairness ==
    \A t \in TaskIds : WF_vars(\E ok \in BOOLEAN : TaskSettle(t, ok))
FairSpec == SpecShared /\ Fairness

\* C4: every task given to the limiter eventually has its promise settled
\* with the outcome of its own closure (resolved if the closure returned,
\* rejected if it failed), also when closures ahead of it in the queue fail.
Submitted(t) == task[t] # "none"
SettledWithOwnOutcome(t) ==
    \/ outcome[t] = "ok" /\ promise[t] = "resolved"
    \/ outcome[t] = "err" /\ promise[t] = "rejected"
C4_EveryTaskSettles ==
    \A t \in TaskIds : Submitted(t) ~> SettledWithOwnOutcome(t)
C4_Witness ==
    /\ cpus = 1
    /\ Len(submitted) >= 2
    /\ outcome[submitted[1]] = "err"
    /\ promise[submitted[1]] = "rejected"
    /\ SettledWithOwnOutcome(submitted[2])
    /\ promise[submitted[2]] = "resolved"


\* ------------------------------------------- claims on downloadFileToPath
Last(seq) == seq[Len(seq)]
IsSuccess(o) == o.status >= 200 /\ o.status <= 299 /\ o.written
IsFinalStatus(o) == o.status \in {400, 401, 403, 404}
\* a non-2xx response or a transport error
IsFailedRequest(o) == o.status = 0 \/ o.status < 200 \/ o.status > 299

\* C6: with retries = r at most r + 1 attempts are made, and the call stops
\* at the first attempt that gets a 2xx response and writes the file; with
\* the default r = 2, answers 500, 500, 200 end in success at attempt 3 and
\* failures that are all retryable end in an error at attempt 3.
C6_AtMostRetriesPlusOneAttempts ==
    /\ attempt <= fRetries + 1
    /\ Len(fLog) <= attempt
    /\ \A k \in 1..Len(fLog) :
          IsSuccess(fLog[k]) => (k = Len(fLog) /\ fPc \in {"writing", "returned"})
    /\ fPc = "returned" => (IsSuccess(Last(fLog)) /\ attempt = Len(fLog))
    /\ (fRetries = 2 /\ fPc # "writing"
          /\ fLog = <<Met(500, FALSE), Met(500, FALSE), Met(200, TRUE)>>)
       => (fPc = "returned" /\ attempt = 3)
    /\ (fRetries = 2 /\ fPc = "threw"
          /\ \A k \in 1..Len(fLog) : ~IsSuccess(fLog[k]) /\ ~IsFinalStatus(fLog[k]))
       => (attempt = 3 /\ Len(fLog) = 3 /\ fErr.attempts = 3)
C6_Witness ==
    /\ fRetries = 2
    /\ fPc = "returned"
    /\ attempt = 3
    /\ fLog = <<Met(500, FALSE), Met(500, FALSE), Met(200, TRUE)>>

\* C7: a response 400, 401, 403 or 404 at attempt k ends the call with an
\* error at attempt k, with no further attempt and no backoff after it,
\* whatever budget remains; any other non-2xx response and any transport
\* error at an attempt k <= retries is followed by a backoff and attempt k+1.
C7_NonRetryableFailsAtOnce ==
    \A k \in 1..Len(fLog) :
        /\ IsFinalStatus(fLog[k]) =>
              /\ k = Len(fLog)
              /\ fPc = "threw"
              /\ fErr.attempts = k
              /\ Len(fWaits) = k - 1
        /\ (IsFailedRequest(fLog[k]) /\ ~IsFinalStatus(fLog[k]) /\ k <= fRetries) =>
              /\ Len(fWaits) >= k
              /\ fWaits[k] = 500 * k
              /\ k = Len(fLog) =>
                    \/ fPc = "backoff" /\ attempt = k
                    \/ fPc = "request" /\ attempt = k + 1
C7_Witness ==
    /\ fRetries = 2
    /\ fPc = "threw"
    /\ fLog = <<Met(429, FALSE), Met(404, FALSE)>>
    /\ fWaits = <<500>>

\* C8 as stated: when the retries are exhausted by non-2xx responses and
\* transport errors, the error carries the url and the status of the most
\* recent attempt that received a response.
RECURSIVE LastKnownStatus(_)
LastKnownStatus(log) ==
    IF log = <<>> THEN 0
    ELSE IF Last(log).status # 0 THEN Last(log).status
    ELSE LastKnownStatus(SubSeq(log, 1, Len(log) - 1))
C8_LastKnownStatus ==
    (fPc = "threw" /\ attempt > fRetries /\ \A k \in 1..Len(fLog) : IsFailedRequest(fLog[k]))
        => (fErr.url = fUrl /\ fErr.status = LastKnownStatus(fLog))

\* C8 amended: the error thrown carries the url and the status of the final
\* attempt alone: that attempt's non-2xx status, and no status when it ended
\* in a transport error or a failed write, whatever earlier attempts received.
C8_FinalAttemptStatus ==
    fPc = "threw" =>
        /\ fErr.url = fUrl
        /\ fErr.url \in Urls
        /\ fErr.status = (IF IsFailedRequest(Last(fLog)) THEN Last(fLog).status ELSE 0)
C8_Witness ==
    /\ fPc = "threw"
    /\ attempt > fRetries
    /\ fLog = <<Met(500, FALSE), TransportError>>
    /\ fErr.status = 0
    /\ fErr.url = fUrl

\* --------------------------------------------- claims on the validation
\* a duration that is missing or not a finite number
Offending(d) ==
    \/ d.k \in {"undefined", "null", "NaN", "Infinity"}
    \/ d.k = "string" /\ d.s \notin {"", "3"}
NoComposition(j) ==
    /\ fastCalls[j] = <<>>
    /\ segCalls[j] = <<>>
    /\ concatCalls[j] = <<>>
    /\ uploadCalls[j] = <<>>

\* C9: when the fetches and the subtitle step are over and some segment has
\* a missing or non-finite duration, the job fails with no render, concat
\* or publish call made, and the error names the smallest offending index.
C9_ValidationBeforeComposition ==
    \A j \in Jobs :
        (/\ downloaded[j] # <<>>
         /\ \A i \in 1..Len(downloaded[j]) : ~downloaded[j][i].sub
         /\ \E i \in 1..Len(downloaded[j]) : Offending(downloaded[j][i].duration))
        => /\ pc[j] = "failed"
           /\ NoComposition(j)
           /\ err[j].kind = "Payload validation failed"
           /\ Offending(downloaded[j][err[j].index + 1].duration)
           /\ \A i \in 1..err[j].index : ~Offending(downloaded[j][i].duration)
           /\ Len(resp[j]) = 1 /\ resp[j][1].status = 500
C9_Witness ==
    \E j \in Jobs :
        /\ pc[j] = "failed"
        /\ Len(downloaded[j]) = 2
        /\ Offending(downloaded[j][1].duration)
        /\ Offending(downloaded[j][2].duration)
        /\ err[j] = [kind |-> "Payload validation failed", index |-> 0]

\* C10 as stated: when the fast render or a fallback segment render is
\* invoked, every segment's duration is a finite number greater than 0.
C10_PositiveDurationAtRender ==
    \A j \in Jobs :
        (fastCalls[j] # <<>> \/ segCalls[j] # <<>>) =>
            \A i \in 1..Len(downloaded[j]) :
                downloaded[j][i].duration.k = "number" /\ downloaded[j][i].duration.n > 0

\* ------------------------------------------------------------ C11 .. C20
\* The request of job j fails the input validation the claim names: jobId
\* missing, not a string or blank, or segments not a non-empty array.
InvalidInput(r) == ~JobIdOk(r.jobId) \/ ~r.isArray \/ Len(r.segments) = 0
IsValidationError(r) == r.status = 400
NoTaskOf(j) == \A i \in 1..MaxSegs : task[<<j, i>>] = "none"
NoRenderOrPublish(j) ==
    fastCalls[j] = <<>> /\ segCalls[j] = <<>> /\ concatCalls[j] = <<>> /\ uploadCalls[j] = <<>>

\* C11 as stated: a request with an invalid jobId or without a non-empty
\* segments array gets a validation error response, and no workspace, fetch
\* task, render or publish exists for it.
C11_InvalidRequestRejected ==
    \A j \in Jobs :
        (pc[j] # "idle" /\ InvalidInput(req[j])) =>
            /\ Len(resp[j]) = 1 /\ IsValidationError(resp[j][1])
            /\ sessionDir[j] = 0 /\ ~dirExists[j]
            /\ NoTaskOf(j)
            /\ NoRenderOrPublish(j)

\* Scheduling for one job: mkdir, every fetch, every render subprocess and
\* the publish call eventually return or raise.
FairHandler ==
    \A j \in Jobs :
        /\ WF_vars(MkdirDone(j) \/ MkdirFail(j))
        /\ WF_vars(\E ok \in BOOLEAN : FastEnd(j, ok))
        /\ WF_vars(\E ok \in BOOLEAN : SegEnd(j, ok))
        /\ WF_vars(\E ok \in BOOLEAN : ConcatEnd(j, ok))
        /\ WF_vars(\E ok \in BOOLEAN : UploadEnd(j, ok))
FairJobSpec == Spec /\ Fairness /\ FairHandler

\* C12 as stated: every request with a valid jobId and a non-empty segments
\* array eventually has exactly one response, and no job ever has two.
C12_ExactlyOneResponse ==
    /\ \A j \in Jobs :
          (pc[j] # "idle" /\ ~InvalidInput(req[j])) ~> (Len(resp[j]) = 1)
    /\ [](\A j \in Jobs : Len(resp[j]) <= 1)

\* The handler of job j has sent its response after a success, or after a
\* failure in production mode.
RespondedWithCleanup(j) ==
    /\ sessionDir[j] # 0
    /\ resp[j] # <<>>
    /\ pc[j] = "done" \/ (pc[j] = "failed" /\ production)

\* C13 as stated: when the response of a job that allocated a workspace has
\* been sent, on success and on failure in production mode, the removal of
\* its workspace directory has already completed.
C13_CleanupBeforeResponse ==
    \A j \in Jobs : RespondedWithCleanup(j) => (rmLog[j] # <<>> /\ ~rmPending[j])

\* Job j has finished and nothing of it is pending: no rm, no download task;
\* and no rm of its directory has failed.
Quiescent(j) ==
    /\ pc[j] \in {"done", "failed"}
    /\ ~rmPending[j]
    /\ \A i \in 1..MaxSegs : task[<<j, i>>] \in {"none", "done"}
    /\ \A k \in 1..Len(rmLog[j]) : ~rmLog[j][k].fault

\* C14 as stated: once a job has finished and its pending work has settled,
\* its workspace directory is absent if the job succeeded or failed in
\* production mode (removed and not recreated), and present if it failed
\* outside production mode.
C14_WorkspaceAfterJob ==
    \A j \in Jobs :
        Quiescent(j) =>
            IF pc[j] = "done" \/ production THEN ~dirExists[j] ELSE dirExists[j]

\* C15 as stated: when mkdir(sessionDir) fails for a valid request, the job
\* makes no fetch, render or publish, and the caller has received a 5xx
\* error response.
C15_AllocationFailureIs5xx ==
    \A j \in Jobs :
        (pc[j] = "threw" /\ sessionDir[j] # 0) =>
            /\ NoTaskOf(j)
            /\ NoRenderOrPublish(j)
            /\ Len(resp[j]) = 1 /\ resp[j][1].status >= 500 /\ resp[j][1].status <= 599

\* The one response the handler of a finished job sends for its outcome.
OutcomeResponse(j) ==
    IF pc[j] = "done" THEN <<SuccessResponse>> ELSE <<FailureResponse(err[j])>>

\* C16: a release that does not fail raises nothing and leaves the directory
\* absent, whether the directory existed or was already absent (released
\* before); a release that fails raises only into its log; and whatever the
\* releases of a finished job did, its response is the one of its outcome.
C16_ReleaseIdempotentAndSilent ==
    \A j \in Jobs :
        /\ \A k \in 1..Len(rmLog[j]) :
              IF rmLog[j][k].fault
              THEN rmLog[j][k].raised
              ELSE ~rmLog[j][k].raised /\ ~rmLog[j][k].after
        /\ (rmLog[j] # <<>> \/ rmPending[j]) =>
              (pc[j] \in {"done", "failed"} /\ resp[j] = OutcomeResponse(j))
C16_Witness ==
    \E j \in Jobs :
        /\ pc[j] = "done"
        /\ Len(rmLog[j]) = 3
        /\ rmLog[j][1].fault /\ rmLog[j][1].after
        /\ ~rmLog[j][2].fault /\ rmLog[j][2].existed
        /\ ~rmLog[j][3].fault /\ ~rmLog[j][3].existed /\ ~rmLog[j][3].raised
        /\ ~dirExists[j]
        /\ resp[j] = <<SuccessResponse>>

\* The scenes of the video the fallback of job j makes: concatVideos takes
\* the clips in the order of its list, and each clip shows the image of the
\* createSegmentVideo call that wrote it, for that call's clip length.
ClipOf(j, path) == CHOOSE c \in { segCalls[j][k] : k \in 1..Len(segCalls[j]) } : c.outPath = path
FallbackScenes(j) ==
    [k \in 1..Len(concatCalls[j][1]) |->
        [imagePath |-> ClipOf(j, concatCalls[j][1][k]).imagePath,
         t |-> ClipDuration(ClipOf(j, concatCalls[j][1][k]))]]
PublishedByFallback(j) == pc[j] = "done" /\ fastRes[j] = "fail"

\* C17: a job that publishes through the fallback publishes the scenes the
\* fast path makes for the same downloaded segments (same number, order and
\* per-scene durations), and answers with the same success response.
C17_FallbackEqualsFastPath ==
    \A j \in Jobs :
        (concatCalls[j] # <<>> /\ concatRes[j] # "fail") =>
            /\ FallbackScenes(j) = FastScenes(downloaded[j])
            /\ FallbackScenes(j) = fastCalls[j][1].scenes
            /\ PublishedByFallback(j) => resp[j] = <<SuccessResponse>>
C17_Witness ==
    \E j \in Jobs :
        /\ PublishedByFallback(j)
        /\ Len(downloaded[j]) = 2
        /\ downloaded[j][1].duration = Num(4)
        /\ downloaded[j][2].duration = Num(3)
        /\ outOfOrder[j]
        /\ resp[j] = <<SuccessResponse>>

\* The jobs whose catch block has run.
Failed == { j \in Jobs : pc[j] = "failed" }
GenericFailure == [status |-> 500, details |-> Error("Internal server error", -1)]

\* C18: in production mode the failure response is the same fixed payload
\* whatever the internal error, so any two failed jobs have identical
\* responses; outside production the response carries the error's message.
C18_ProductionFailureIsGeneric ==
    /\ \A j \in Failed :
          resp[j] = <<IF production THEN GenericFailure
                      ELSE [status |-> 500, details |-> err[j]]>>
    /\ production => \A a \in Failed, b \in Failed : resp[a] = resp[b]
C18_Witness ==
    /\ production
    /\ \E a \in Failed, b \in Failed :
          /\ err[a].kind = "Request failed"
          /\ err[b].kind = "Supabase upload failed"
          /\ resp[a] = resp[b]
          /\ Len(resp[a]) = 1

\* Every path job j has handed to a download, a render, a concat or the
\* publisher, or received from one.
Range(s) == { s[k] : k \in 1..Len(s) }
PathsOf(j) ==
    ({ v.imagePath : v \in Range(results[j]) } \ {NoPath})
    \cup { v.imagePath : v \in Range(downloaded[j]) }
    \cup UNION { { s.imagePath : s \in Range(c.segments) } : c \in Range(fastCalls[j]) }
    \cup UNION { { s.imagePath : s \in Range(c.scenes) } : c \in Range(fastCalls[j]) }
    \cup { c.imagePath : c \in Range(segCalls[j]) }
    \cup { c.outPath : c \in Range(segCalls[j]) }
    \cup Range(segVideoPaths[j])
    \cup UNION { Range(c) : c \in Range(concatCalls[j]) }
    \cup Range(uploadCalls[j])
Allocated == { j \in Jobs : sessionDir[j] # 0 }

\* C19: two jobs never have the same workspace directory, also when they
\* carry the same jobId, and every path a job uses lies under its own
\* workspace directory.
C19_WorkspacesDisjoint ==
    /\ \A a \in Allocated, b \in Allocated : a # b => sessionDir[a] # sessionDir[b]
    /\ \A j \in Jobs : \A q \in PathsOf(j) : q.dir = sessionDir[j] /\ q.dir # 0
C19_Witness ==
    \E a \in Allocated, b \in Allocated :
        /\ a # b
        /\ req[a].jobId = req[b].jobId
        /\ pc[a] = "concat" /\ pc[b] = "upload"
        /\ Cardinality(PathsOf(a)) >= 4
        /\ uploadCalls[b] # <<>>

\* C20: the fallback is entered exactly when the fast render raised, each
\* of its steps is made at most once, and a failed segment render or a
\* failed concatenation leaves the job failed with the failed call as its
\* last render or publish call.
C20_FallbackOnlyAfterFastFailure ==
    \A j \in Jobs :
        /\ (segCalls[j] # <<>>) <=> (fastRes[j] = "fail")
        /\ Len(fastCalls[j]) <= 1
        /\ (fastRes[j] # "none") => Len(fastCalls[j]) = 1
        /\ Len(segCalls[j]) <= Len(downloaded[j])
        /\ \A k \in 1..Len(segCalls[j]) : segCalls[j][k].outPath = segOut(sessionDir[j], k)
        /\ Len(concatCalls[j]) <= 1
        /\ (concatCalls[j] # <<>>) => Len(segCalls[j]) = Len(downloaded[j])
        /\ (pc[j] = "seg") => Len(segCalls[j]) = Len(segVideoPaths[j]) + 1
        /\ (pc[j] = "failed" /\ err[j].kind = "createSegmentVideo failed") =>
              /\ Len(segCalls[j]) = Len(segVideoPaths[j]) + 1
              /\ concatCalls[j] = <<>> /\ uploadCalls[j] = <<>>
        /\ (pc[j] = "failed" /\ err[j].kind = "concatVideos failed") =>
              /\ Len(segCalls[j]) = Len(downloaded[j])
              /\ uploadCalls[j] = <<>>
C20_Witness ==
    \E j \in Jobs :
        /\ pc[j] = "failed"
        /\ err[j].kind = "concatVideos failed"
        /\ fastRes[j] = "fail"
        /\ Len(segCalls[j]) = 2
        /\ Len(concatCalls[j]) = 1

\* ------------------------------------------------------------ C21 .. C26
FetchFailed(j) == \E i \in 1..MaxSegs : outcome[<<j, i>>] = "err"
AllFetched(j) == \A i \in 1..NumSegs(j) : outcome[<<j, i>>] = "ok"

\* C21: a job one of whose fetches failed is failed with the fetch error and
\* has run no subtitle, validation, render or publish step; a job composes
\* only after all its fetches succeeded; and a job is failed by a fetch
\* error only if one of its own fetches failed.
C21_FetchFailureFailsOwnJobOnly ==
    \A j \in Jobs :
        /\ FetchFailed(j) =>
              /\ pc[j] = "failed" /\ err[j].kind = "Request failed"
              /\ downloaded[j] = <<>>
              /\ NoRenderOrPublish(j)
        /\ (downloaded[j] # <<>> \/ ~NoRenderOrPublish(j)) => AllFetched(j)
        /\ (pc[j] = "failed" /\ err[j].kind = "Request failed") => FetchFailed(j)
C21_Witness ==
    \E a \in Jobs, b \in Jobs :
        /\ FetchFailed(a) /\ pc[a] = "failed"
        /\ Len(started) >= 2 /\ started[1][1] = a /\ outcome[started[1]] = "err"
        /\ ~FetchFailed(b) /\ pc[b] = "done"

\* The fallback renders whose process is over: it ended, errored or was killed.
Over(t) == proc[t] \in {"ended", "errored", "killed"}

\* C22: a started fallback render is pending only while its timer is armed
\* and within the budget; a render that is over has its promise settled, by
\* the first call of resolve or reject and by no later one, and no armed
\* timer; it resolves only after a normal end; and an expiry kills the
\* process and rejects, which fails the job with nothing concatenated or
\* published.
C22_RenderSettlesWithinBudget ==
    \A t \in TaskIds :
        /\ proc[t] = "running" =>
              timeout[t] = "armed" /\ elapsed[t] <= TimeoutTicks /\ segPromise[t] = "pending"
        /\ Over(t) => segPromise[t] # "pending" /\ timeout[t] # "armed"
        /\ segPromise[t] =
              (IF settleCalls[t] = <<>> THEN "pending"
               ELSE IF Head(settleCalls[t]) = "resolve" THEN "resolved" ELSE "rejected")
        /\ segPromise[t] = "resolved" =>
              proc[t] = "ended" /\ timeout[t] = "cleared" /\ settleCalls[t] = <<"resolve">>
        /\ timeout[t] = "fired" =>
              proc[t] \in {"killed", "errored"} /\ segPromise[t] = "rejected"
        /\ segPromise[t] = "rejected" =>
              /\ pc[t[1]] = "failed" /\ err[t[1]].kind = "createSegmentVideo failed"
              /\ concatCalls[t[1]] = <<>> /\ uploadCalls[t[1]] = <<>>
C22_Witness ==
    \E j \in Jobs :
        /\ segPromise[<<j, 1>>] = "resolved" /\ timeout[<<j, 1>>] = "cleared"
        /\ timeout[<<j, 2>>] = "fired" /\ elapsed[<<j, 2>>] = TimeoutTicks
        /\ proc[<<j, 2>>] = "errored"
        /\ settleCalls[<<j, 2>>] = <<"reject", "reject">>
        /\ pc[j] = "failed" /\ uploadCalls[j] = <<>>

Min(a, b) == IF a <= b THEN a ELSE b

\* C23: for a probed image of iw x ih and a target of W x H, the scaled size
\* is within 1 .. min(iw, W) by 1 .. min(ih, H): the image is never
\* upscaled and fits the frame; it is the floor of iw * f and ih * f (at
\* least 1) up to the rounding of the product, and an image that fits the
\* frame keeps its size.
C23_ScaledSizeFitsFrame ==
    (scale.pc = "built" /\ scale.iw > 0 /\ scale.ih > 0) =>
        LET f == factor(scale.W, scale.H, scale.iw, scale.ih)
        IN  /\ scale.filter = "scale"
            /\ 1 <= scale.scaledW /\ scale.scaledW <= Min(scale.iw, scale.W)
            /\ 1 <= scale.scaledH /\ scale.scaledH <= Min(scale.ih, scale.H)
            /\ f.den * scale.scaledW <= Max(f.den, scale.iw * f.num)
            /\ f.den * scale.scaledH <= Max(f.den, scale.ih * f.num)
            /\ f.den * (scale.scaledW + 2) > scale.iw * f.num
            /\ f.den * (scale.scaledH + 2) > scale.ih * f.num
            /\ (scale.iw <= scale.W /\ scale.ih <= scale.H) =>
                  (scale.scaledW = scale.iw /\ scale.scaledH = scale.ih)
C23_Witness ==
    /\ scale.pc = "built"
    /\ scale.iw = 6 /\ scale.ih = 3 /\ scale.W = 4 /\ scale.H = 4
    /\ scale.scaledW = 4 /\ scale.scaledH = 2

\* The value of the first alias of the list that is present on s, and
\* Undefined (unset) when none is.
FirstPresent(s, aliases) ==
    IF \E k \in 1..Len(aliases) : s[aliases[k]] # Undefined
    THEN s[aliases[CHOOSE k \in 1..Len(aliases) :
                      /\ s[aliases[k]] # Undefined
                      /\ \A n \in 1..(k - 1) : s[aliases[n]] = Undefined]]
    ELSE Undefined
Nullish(v) == v.k \in {"undefined", "null"}

\* C24 as stated: each normalised field is the value of the first alias of
\* its priority list present on the raw segment, and unset when none is.
C24_FirstPresentAliasWins ==
    (norm.pc = "done" /\ norm.raw.self = Obj) =>
        /\ norm.out.imageUrl = FirstPresent(norm.raw, ImageAliases)
        /\ norm.out.duration = FirstPresent(norm.raw, DurationAliases)

\* C24, amended: imageUrl is the value of the first image alias whose value
\* is truthy, and duration the value of the first duration alias whose
\* value is neither null nor undefined; when there is none, the field has
\* the value of the last alias of its list; no other field of the raw
\* segment matters.
C24_FirstUsableAliasWins ==
    (norm.pc = "done" /\ norm.raw.self = Obj) =>
        /\ \A k \in 1..Len(ImageAliases) :
              (/\ Truthy(norm.raw[ImageAliases[k]])
               /\ \A n \in 1..(k - 1) : ~Truthy(norm.raw[ImageAliases[n]]))
              => norm.out.imageUrl = norm.raw[ImageAliases[k]]
        /\ (\A k \in 1..Len(ImageAliases) : ~Truthy(norm.raw[ImageAliases[k]]))
              => norm.out.imageUrl = norm.raw.image
        /\ \A k \in 1..Len(DurationAliases) :
              (/\ ~Nullish(norm.raw[DurationAliases[k]])
               /\ \A n \in 1..(k - 1) : Nullish(norm.raw[DurationAliases[n]]))
              => norm.out.duration = norm.raw[DurationAliases[k]]
        /\ (\A k \in 1..Len(DurationAliases) : Nullish(norm.raw[DurationAliases[k]]))
              => norm.out.duration = norm.raw.time
        /\ norm.out = normalize([norm.raw EXCEPT !.caption = Undefined])
C24_Witness ==
    /\ norm.pc = "done"
    /\ norm.raw.imageUrl = Str("") /\ norm.raw.image_Url = Undefined
    /\ norm.raw.image_url = Str("image_url") /\ norm.raw.image = Str("image")
    /\ norm.out.imageUrl = Str("image_url")
    /\ norm.raw.duration = Null /\ norm.raw.length = Num(0) /\ norm.raw.time = Num(3)
    /\ norm.out.duration = Num(0)
    /\ norm.raw.caption = Str("caption")

\* C25 as stated: once a job has sent its response, none of its fetch tasks
\* is still queued in or running under the limiter.
C25_NoFetchOutlivesResponse ==
    \A j \in Jobs :
        resp[j] # <<>> =>
            \A i \in 1..MaxSegs : task[<<j, i>>] \in {"none", "done"}

\* C26: between events the limiter's counter equals the number of closures
\* started and not yet settled, so it stays within 0..N and a closure that
\* failed holds no slot; the queue holds exactly the tasks not yet started,
\* and a task waits in it only while all N slots are taken.
C26_CounterExactAndWorkConserving ==
    /\ active = Cardinality(Running)
    /\ 0 <= active /\ active <= MAX_CONCURRENCY
    /\ \A t \in TaskIds : outcome[t] # "none" => task[t] = "done"
    /\ {queue[k] : k \in 1..Len(queue)} = {t \in TaskIds : task[t] = "queued"}
    /\ Len(queue) > 0 => active = MAX_CONCURRENCY
C26_Witness ==
    /\ \E t \in TaskIds : outcome[t] = "err" /\ task[t] = "done"
    /\ Len(started) > MAX_CONCURRENCY
    /\ active = MAX_CONCURRENCY
    /\ Len(queue) >= 1

====
